---- MODULE Spec2Model ----
(***************************************************************************)
(* FrontmatterManager: frontmatter-array.js (batch transform and           *)
(* copy-frontmatter) and frontmatter-editor.js (get/set/remove/list).      *)
(*                                                                         *)
(* A string is a sequence of UTF-16 code units (32 space, 44 comma,        *)
(* 97 a, 98 b).  A frontmatter value is a tagged record; a metadata        *)
(* mapping is a function from the field names present to values.  The      *)
(* frontmatter codec (gray-matter) is an external library: a file whose    *)
(* fence parses is held on disk as the pair (data, body) it parses to.     *)
(***************************************************************************)
EXTENDS Integers, Sequences, FiniteSets, TLC

\* ------------------------------------------------------------------ bounds
MaxStrLen == 5
MaxArrLen == 3

\* ----------------------------------------------------------------- strings
Chars == {32, 44, 97, 98}
Letters == {97, 98}
WhiteSpace == {9, 10, 11, 12, 13, 32}

StringsUpTo(alphabet, n) == UNION {[1..k -> alphabet] : k \in 0..n}

EmptyString == << >>

\* First index of code unit d in s at or after position i, 0 when there is none.
RECURSIVE IndexOf(_, _, _)
IndexOf(s, d, i) ==
  IF i > Len(s) THEN 0
  ELSE IF s[i] = d THEN i
  ELSE IndexOf(s, d, i + 1)

\* String.prototype.split with a one-unit separator: "" gives [""].
RECURSIVE Split(_, _)
Split(s, d) ==
  LET i == IndexOf(s, d, 1) IN
  IF i = 0 THEN <<s>>
  ELSE <<SubSeq(s, 1, i - 1)>> \o Split(SubSeq(s, i + 1, Len(s)), d)

RECURSIVE TrimStart(_)
TrimStart(s) ==
  IF s # << >> /\ s[1] \in WhiteSpace THEN TrimStart(Tail(s)) ELSE s

RECURSIVE TrimEnd(_)
TrimEnd(s) ==
  IF s # << >> /\ s[Len(s)] \in WhiteSpace
  THEN TrimEnd(SubSeq(s, 1, Len(s) - 1)) ELSE s

\* String.prototype.trim
Trim(s) == TrimEnd(TrimStart(s))

\* .map(value => value.trim())
MapTrim(arr) == [i \in 1..Len(arr) |-> Trim(arr[i])]

\* .filter(value => value.length > 0)
FilterNonEmpty(arr) == SelectSeq(arr, LAMBDA x : Len(x) > 0)

Contains(arr, x) == \E i \in 1..Len(arr) : arr[i] = x

\* [...new Set(arr)]: insertion order of the first occurrences.
RECURSIVE UniqueFrom(_, _)
UniqueFrom(seen, rest) ==
  IF rest = << >> THEN seen
  ELSE IF Contains(seen, Head(rest)) THEN UniqueFrom(seen, Tail(rest))
  ELSE UniqueFrom(Append(seen, Head(rest)), Tail(rest))

Unique(arr) == UniqueFrom(<< >>, arr)

\* The default comparison of Array.prototype.sort: code-unit order of strings.
RECURSIVE StrLess(_, _)
StrLess(x, y) ==
  IF y = << >> THEN FALSE
  ELSE IF x = << >> THEN TRUE
  ELSE IF Head(x) # Head(y) THEN Head(x) < Head(y)
  ELSE StrLess(Tail(x), Tail(y))

RECURSIVE InsertSorted(_, _)
InsertSorted(sorted, x) ==
  IF sorted = << >> THEN <<x>>
  ELSE IF StrLess(x, Head(sorted)) THEN <<x>> \o sorted
  ELSE <<Head(sorted)>> \o InsertSorted(Tail(sorted), x)

RECURSIVE SortFrom(_, _)
SortFrom(sorted, rest) ==
  IF rest = << >> THEN sorted
  ELSE SortFrom(InsertSorted(sorted, Head(rest)), Tail(rest))

\* Array.prototype.sort() (stable, ascending)
Sort(arr) == SortFrom(<< >>, arr)

\* Array.prototype.join with a one-unit separator
RECURSIVE Join(_, _)
Join(arr, d) ==
  IF arr = << >> THEN EmptyString
  ELSE IF Len(arr) = 1 THEN arr[1]
  ELSE arr[1] \o <<d>> \o Join(Tail(arr), d)

IsSorted(arr) == \A i \in 1..(Len(arr) - 1) : ~StrLess(arr[i + 1], arr[i])
NoDuplicates(arr) == \A i, j \in 1..Len(arr) : arr[i] = arr[j] => i = j

\* ------------------------------------------------------------------ values
Str(s) == [t |-> "string", s |-> s, a |-> << >>, n |-> 0]
Arr(a) == [t |-> "array", s |-> << >>, a |-> a, n |-> 0]
Num(n) == [t |-> "number", s |-> << >>, a |-> << >>, n |-> n]
Bool(b) == [t |-> "boolean", s |-> << >>, a |-> << >>, n |-> IF b THEN 1 ELSE 0]
Null == [t |-> "null", s |-> << >>, a |-> << >>, n |-> 0]

IsString(v) == v.t = "string"
IsArray(v) == v.t = "array"

\* JavaScript truthiness of a defined value
Truthy(v) ==
  CASE v.t = "string" -> v.s # << >>
    [] v.t = "array" -> TRUE
    [] v.t = "number" -> v.n # 0
    [] v.t = "boolean" -> v.n = 1
    [] OTHER -> FALSE

\* ---------------------------------------------------------------- metadata
EmptyData == [g \in {} |-> Null]
Has(data, f) == f \in DOMAIN data
\* data[f] = value
SetField(data, f, v) == [g \in (DOMAIN data) \cup {f} |-> IF g = f THEN v ELSE data[g]]
\* delete data[f]
DeleteField(data, f) == [g \in (DOMAIN data) \ {f} |-> data[g]]
\* data[f] is truthy (an absent field reads undefined)
TruthyField(data, f) == Has(data, f) /\ Truthy(data[f])

\* args.addField / removeField / renameField / newFieldName left null
NoField == "<null>"

\* ---------------------------------------------------- the transform engine
\* One entry of the changes array of processMarkdownFile.
Change(type, field, newField, value) ==
  [type |-> type, field |-> field, newField |-> newField, value |-> value]

\* The locals of processMarkdownFile that the transform reads and writes.
Locals(data, modified, changes) ==
  [data |-> data, modified |-> modified, changes |-> changes]

\* to-array, string branch: split, trim, drop empty, then unique, then sort.
SplitToArray(s, a) ==
  LET valueArray == FilterNonEmpty(MapTrim(Split(s, a.delimiter)))
      processedArray == IF a.uniqueValues THEN Unique(valueArray) ELSE valueArray
  IN IF a.sortArrays THEN Sort(processedArray) ELSE processedArray

\* An array branch that removes duplicates whether or not uniqueValues is set.
ProcessedArrayDedup(original, a) ==
  LET copied == Unique(original)
  IN IF a.sortArrays THEN Sort(copied) ELSE copied

\* to-array, array branch: processedArray after the optional copy and sort.
ProcessedArray(original, a) ==
  LET copied == IF a.uniqueValues THEN Unique(original) ELSE original
  IN IF a.sortArrays THEN Sort(copied) ELSE copied

\* to-array, array branch: what data[field] holds when it is compared with
\* processedArray.  Without uniqueValues processedArray is data[field] itself,
\* so sort() has sorted data[field] in place.
ArrayAtCompare(original, a) ==
  IF ~a.uniqueValues /\ a.sortArrays THEN Sort(original) ELSE original

\* One iteration of the to-array loop.
ToArrayField(st, field, a) ==
  IF TruthyField(st.data, field) /\ IsString(st.data[field]) THEN
    LET processedArray == SplitToArray(st.data[field].s, a) IN
    Locals(SetField(st.data, field, Arr(processedArray)), TRUE,
           Append(st.changes, Change("convert-to-array", field, NoField, Arr(processedArray))))
  ELSE IF Has(st.data, field) /\ IsArray(st.data[field])
          /\ (a.sortArrays \/ a.uniqueValues) THEN
    LET original == st.data[field].a
        processedArray == ProcessedArray(original, a)
        held == ArrayAtCompare(original, a)
    IN IF held # processedArray
       THEN Locals(SetField(st.data, field, Arr(processedArray)), TRUE,
                   Append(st.changes, Change("process-array", field, NoField, Arr(processedArray))))
       ELSE Locals(SetField(st.data, field, Arr(held)), st.modified, st.changes)
  ELSE st

\* A to-string that takes an empty array for a missing value.
ToStringFieldSkipEmpty(st, field, a) ==
  IF TruthyField(st.data, field) /\ IsArray(st.data[field])
     /\ st.data[field].a # << >> THEN
    LET stringValue == Join(st.data[field].a, a.delimiter) IN
    Locals(SetField(st.data, field, Str(stringValue)), TRUE,
           Append(st.changes, Change("convert-to-string", field, NoField, Str(stringValue))))
  ELSE st

\* A to-string that joins with a blank, whatever the delimiter.
ToStringFieldBlank(st, field, a) ==
  IF TruthyField(st.data, field) /\ IsArray(st.data[field]) THEN
    LET stringValue == Join(st.data[field].a, 32) IN
    Locals(SetField(st.data, field, Str(stringValue)), TRUE,
           Append(st.changes, Change("convert-to-string", field, NoField, Str(stringValue))))
  ELSE st

\* One iteration of the to-string loop.
ToStringField(st, field, a) ==
  IF TruthyField(st.data, field) /\ IsArray(st.data[field]) THEN
    LET stringValue == Join(st.data[field].a, a.delimiter) IN
    Locals(SetField(st.data, field, Str(stringValue)), TRUE,
           Append(st.changes, Change("convert-to-string", field, NoField, Str(stringValue))))
  ELSE st

\* for (const field of args.fields) in the mode switch
RECURSIVE ConvertFields(_, _, _)
ConvertFields(st, fields, a) ==
  IF fields = << >> THEN st
  ELSE ConvertFields(
         IF a.mode = "to-array" THEN ToArrayField(st, Head(fields), a)
         ELSE IF a.mode = "to-string" THEN ToStringField(st, Head(fields), a)
         ELSE st,
         Tail(fields), a)

\* An addition that stores the value as a one-element array.
AddFieldAsList(st, a) ==
  IF a.addField # NoField /\ ~TruthyField(st.data, a.addField) THEN
    Locals(SetField(st.data, a.addField, Arr(<<a.addValue>>)), TRUE,
           Append(st.changes, Change("add-field", a.addField, NoField, Arr(<<a.addValue>>))))
  ELSE st

\* Add field
AddField(st, a) ==
  IF a.addField # NoField /\ ~TruthyField(st.data, a.addField) THEN
    Locals(SetField(st.data, a.addField, Str(a.addValue)), TRUE,
           Append(st.changes, Change("add-field", a.addField, NoField, Str(a.addValue))))
  ELSE st

\* A removal that records its change and forgets to set modified.
RemoveFieldUnflagged(st, a) ==
  IF a.removeField # NoField /\ Has(st.data, a.removeField) THEN
    Locals(DeleteField(st.data, a.removeField), st.modified,
           Append(st.changes, Change("remove-field", a.removeField, NoField, Null)))
  ELSE st

\* Remove field
RemoveField(st, a) ==
  IF a.removeField # NoField /\ Has(st.data, a.removeField) THEN
    Locals(DeleteField(st.data, a.removeField), TRUE,
           Append(st.changes, Change("remove-field", a.removeField, NoField, Null)))
  ELSE st

\* Rename field
RenameField(st, a) ==
  IF a.renameField # NoField /\ a.newFieldName # NoField
     /\ Has(st.data, a.renameField) THEN
    Locals(DeleteField(SetField(st.data, a.newFieldName, st.data[a.renameField]),
                       a.renameField),
           TRUE,
           Append(st.changes, Change("rename-field", a.renameField, a.newFieldName, Null)))
  ELSE st

\* The field operations with the removal moved in front of the addition.
FieldOpsRemoveFirst(st, a) == RenameField(AddField(RemoveField(st, a), a), a)

\* The three field operations in the order of the code.
FieldOps(st, a) == RenameField(RemoveField(AddField(st, a), a), a)

\* The transform of one parsed file (modes to-array and to-string).
Transform(data, a) == FieldOps(ConvertFields(Locals(data, FALSE, << >>), a.fields, a), a)

\* validate: args.fields.filter(field => !data[field])
MissingFields(data, a) == SelectSeq(a.fields, LAMBDA f : ~TruthyField(data, f))

\* ------------------------------------------------------------ file system
\* A directory entry name is <<stem, extension>>; a path is a sequence of names.
N(stem, ext) == <<stem, ext>>
\* path.join(dir, item)
PathJoin(dir, item) == Append(dir, item)
\* path.basename(filePath)
Basename(p) == p[Len(p)]
\* path.relative(root, p) for p under the one-name root
Relative(p) == Tail(p)
\* extensions.some(ext => item.endsWith(ext))
HasExtension(item, extensions) == item[2] \in extensions

ContentRoot == <<N("content", "")>>
SourceRoot == <<N("source", "")>>
TargetRoot == <<N("target", "")>>
DocsDir == PathJoin(ContentRoot, N("docs", ""))
SourceSub == PathJoin(SourceRoot, N("a", ""))
TargetSub == PathJoin(TargetRoot, N("b", ""))

\* fs.readdirSync(dir) of a listable directory
Listing(dir) ==
  CASE dir = ContentRoot -> <<N("a", ".md"), N("docs", ""), N("notes", ".txt"), N("z", ".md")>>
    [] dir = DocsDir -> <<N("b", ".md")>>
    [] dir = SourceRoot -> <<N("a", ""), N("x", ".md"), N("y", ".md")>>
    [] dir = SourceSub -> <<N("x", ".md")>>
    [] dir = TargetRoot -> <<N("b", ""), N("x", ".md"), N("y", ".md"), N("z", ".md")>>
    [] dir = TargetSub -> <<N("x", ".md")>>
    [] OTHER -> << >>

Directories == {ContentRoot, DocsDir, SourceRoot, SourceSub, TargetRoot, TargetSub}
ContentFiles ==
  {PathJoin(ContentRoot, N("a", ".md")), PathJoin(DocsDir, N("b", ".md")),
   PathJoin(ContentRoot, N("z", ".md"))}
SourceFiles ==
  {PathJoin(SourceSub, N("x", ".md")), PathJoin(SourceRoot, N("x", ".md")),
   PathJoin(SourceRoot, N("y", ".md"))}
TargetFiles ==
  {PathJoin(TargetSub, N("x", ".md")), PathJoin(TargetRoot, N("x", ".md")),
   PathJoin(TargetRoot, N("y", ".md")), PathJoin(TargetRoot, N("z", ".md"))}
MarkdownFiles == ContentFiles \cup SourceFiles \cup TargetFiles
RegularFiles == MarkdownFiles \cup {PathJoin(ContentRoot, N("notes", ".txt"))}

\* A file on disk: what reading, parsing or writing it does ("read", "parse" and
\* "write" name the call that throws) and the (data, content) it parses to.
File(fault, data, body) == [fault |-> fault, data |-> data, body |-> body]

VARIABLES
  prog,           \* "unit" | "array" | "editor" | "copy": the script that runs
  args,           \* the parsed command line
  env,            \* the directories whose readdirSync / entries whose statSync throws
  disk,           \* file path -> File, for the files under the directories given
  disk0,          \* the disk before the run (history)
  pc,             \* "start" | "walk" | "done" | "aborted" | "exit1" | "again"
  stack,          \* the active processDirectory calls: <<[dir, idx]>>, innermost last
  log,            \* what the run reported, per file, in order (history)
  sourceFiles,    \* copyFrontmatter: the collected source files
  matchedFiles,   \* copyFrontmatter: counter
  modifiedFiles   \* copyFrontmatter: counter

vars == <<prog, args, env, disk, disk0, pc, stack, log, sourceFiles, matchedFiles, modifiedFiles>>

\* One report of the run.
Report(path, kind, modified, changes, data, source) ==
  [path |-> path, kind |-> kind, modified |-> modified, changes |-> changes,
   data |-> data, source |-> source]

NoPath == << >>

\* --------------------------------------------------- processMarkdownFile
WriteAlways(modified, dryRun) == modified

\* if (modified) { ... if (!args.dryRun) fs.writeFileSync(...) }
WritesFile(modified, dryRun) == modified /\ ~dryRun

\* args.pattern && !args.pattern.test(basename)
PatternMismatch(item, a) == a.pattern.given /\ item \notin a.pattern.names

\* One call of a per-file handler: the report, whether it wrote and the file as
\* written, and whether an exception left the handler.
Outcome(report, wrote, file, threw) ==
  [report |-> report, wrote |-> wrote, file |-> file, threw |-> threw]

\* A handler whose analyze and validate cases do not return: the field
\* operations and the write follow them.
ProcessMarkdownFileNoReturn(path, f, a) ==
  IF PatternMismatch(Basename(path), a) THEN
    Outcome(Report(path, "pattern-mismatch", FALSE, << >>, EmptyData, NoPath), FALSE, f, FALSE)
  ELSE IF f.fault \in {"read", "parse"} THEN
    Outcome(Report(path, "error", FALSE, << >>, EmptyData, NoPath), FALSE, f, TRUE)
  ELSE
    LET st == Transform(f.data, a) IN
    IF WritesFile(st.modified, a.dryRun) THEN
      IF f.fault = "write" THEN
        Outcome(Report(path, "error", st.modified, st.changes, st.data, NoPath), FALSE, f, TRUE)
      ELSE
        Outcome(Report(path, "updated", st.modified, st.changes, st.data, NoPath),
                TRUE, File(f.fault, st.data, f.body), FALSE)
    ELSE
      Outcome(Report(path, IF st.modified THEN "would-update" ELSE "no-change",
                     st.modified, st.changes, st.data, NoPath),
              FALSE, f, FALSE)

\* The try block of processMarkdownFile(path), run on the file f found on disk.
TryProcessMarkdownFile(path, f, a) ==
  IF PatternMismatch(Basename(path), a) THEN
    Outcome(Report(path, "pattern-mismatch", FALSE, << >>, EmptyData, NoPath), FALSE, f, FALSE)
  ELSE IF f.fault \in {"read", "parse"} THEN
    Outcome(Report(path, "error", FALSE, << >>, EmptyData, NoPath), FALSE, f, TRUE)
  ELSE IF a.mode = "analyze" THEN
    Outcome(Report(path, "analyze", FALSE, << >>, f.data, NoPath), FALSE, f, FALSE)
  ELSE IF a.mode = "validate" THEN
    Outcome(Report(path,
                   IF MissingFields(f.data, a) # << >> THEN "validation-failed"
                   ELSE "validation-passed",
                   FALSE, << >>, f.data, NoPath),
            FALSE, f, FALSE)
  ELSE
    LET st == Transform(f.data, a) IN
    IF WritesFile(st.modified, a.dryRun) THEN
      IF f.fault = "write" THEN
        Outcome(Report(path, "error", st.modified, st.changes, st.data, NoPath), FALSE, f, TRUE)
      ELSE
        Outcome(Report(path, "updated", st.modified, st.changes, st.data, NoPath),
                TRUE, File(f.fault, st.data, f.body), FALSE)
    ELSE
      Outcome(Report(path, IF st.modified THEN "would-update" ELSE "no-change",
                     st.modified, st.changes, st.data, NoPath),
              FALSE, f, FALSE)

\* A handler without the catch block: a failure leaves the directory walk.
ProcessMarkdownFileUncaught(path, f, a) == TryProcessMarkdownFile(path, f, a)

\* processMarkdownFile(path): the catch block reports the error and returns.
ProcessMarkdownFile(path, f, a) ==
  [TryProcessMarkdownFile(path, f, a) EXCEPT !.threw = FALSE]

\* ------------------------------------------------- frontmatter-editor.js
Digits == 48..57
True == <<116, 114, 117, 101>>
False == <<102, 97, 108, 115, 101>>

RECURSIVE DecimalValue(_, _)
DecimalValue(s, acc) ==
  IF s = << >> THEN acc ELSE DecimalValue(Tail(s), acc * 10 + (Head(s) - 48))

\* !isNaN(value) && value.trim() !== '', for strings of digits, letters and blanks
IsNumeric(s) == Trim(s) # << >> /\ \A i \in 1..Len(Trim(s)) : Trim(s)[i] \in Digits

\* JSON.parse, for the texts "[]" (the empty array) and texts that are no JSON
JsonParse(s) ==
  IF s = <<91, 93>> THEN [ok |-> TRUE, value |-> Arr(<< >>)]
  ELSE [ok |-> FALSE, value |-> Str(s)]

\* A setField that stores the text as it was given.
ParseValueAsText(s) == Str(s)

\* setField: the value that is stored for the text given with --value
ParseValue(s) ==
  IF s # << >> /\ s[1] \in {91, 123} THEN
    (IF JsonParse(s).ok THEN JsonParse(s).value ELSE Str(s))
  ELSE IF s = True \/ s = False THEN Bool(s = True)
  ELSE IF IsNumeric(s) THEN Num(DecimalValue(Trim(s), 0))
  ELSE Str(s)

\* The updateFn of setField and of removeField: {modified, message} and data.
UpdateFn(data, a) ==
  IF a.command = "set" THEN
    [modified |-> TRUE, data |-> SetField(data, a.field, ParseValue(a.value)),
     changes |-> <<Change("set", a.field, NoField, ParseValue(a.value))>>]
  ELSE IF Has(data, a.field) THEN
    [modified |-> TRUE, data |-> DeleteField(data, a.field),
     changes |-> <<Change("remove", a.field, NoField, data[a.field])>>]
  ELSE
    [modified |-> FALSE, data |-> data, changes |-> << >>]

\* if (result.modified) { if (!args.dryRun) { ... fs.writeFileSync(...) } }
EditorWritesFile(modified, dryRun) == modified /\ ~dryRun

\* The try block of updateFile(filePath, updateFn), run on the file f found on disk.
TryUpdateFile(path, f, a) ==
  IF f.fault \in {"read", "parse"} THEN
    Outcome(Report(path, "error", FALSE, << >>, EmptyData, NoPath), FALSE, f, TRUE)
  ELSE
    LET result == UpdateFn(f.data, a) IN
    IF EditorWritesFile(result.modified, a.dryRun) THEN
      IF f.fault = "write" THEN
        Outcome(Report(path, "error", result.modified, result.changes, result.data, NoPath),
                FALSE, f, TRUE)
      ELSE
        Outcome(Report(path, "updated", result.modified, result.changes, result.data, NoPath),
                TRUE, File(f.fault, result.data, f.body), FALSE)
    ELSE
      Outcome(Report(path, IF result.modified THEN "would-update" ELSE "no-change",
                     result.modified, result.changes, result.data, NoPath),
              FALSE, f, FALSE)

\* updateFile(filePath, updateFn): the catch block reports the error and returns.
UpdateFile(path, f, a) == [TryUpdateFile(path, f, a) EXCEPT !.threw = FALSE]

\* ------------------------------------------------------- copyFrontmatter
Kind(p) ==
  IF p \in Directories THEN "dir" ELSE IF p \in RegularFiles THEN "file" ELSE "other"

\* A search that pairs every target file with the first source file.
FindFirstSource(files, item, targetRelativePath, i) ==
  IF i > Len(files) THEN 0 ELSE 1

\* collectSourceFiles(dir): the files pushed, and whether a call threw.
RECURSIVE CollectItems(_, _, _, _, _)
CollectItems(dir, i, acc, a, e) ==
  IF dir \in e.listFail THEN [ok |-> FALSE, files |-> acc]
  ELSE IF i > Len(Listing(dir)) THEN [ok |-> TRUE, files |-> acc]
  ELSE
    LET item == Listing(dir)[i]
        itemPath == PathJoin(dir, item)
    IN IF itemPath \in e.statFail THEN [ok |-> FALSE, files |-> acc]
       ELSE IF Kind(itemPath) = "dir" /\ a.recursive THEN
         LET sub == CollectItems(itemPath, 1, acc, a, e) IN
         IF sub.ok THEN CollectItems(dir, i + 1, sub.files, a, e) ELSE sub
       ELSE IF Kind(itemPath) = "file" /\ HasExtension(item, a.extension) THEN
         CollectItems(dir, i + 1,
                      Append(acc, [path |-> itemPath, name |-> item,
                                   relativePath |-> Relative(itemPath)]),
                      a, e)
       ELSE CollectItems(dir, i + 1, acc, a, e)

\* sourceFiles.find(sf => sf.name === item || sf.relativePath === targetRelativePath):
\* the index of the first such entry at or after i, 0 when there is none.
RECURSIVE FindSource(_, _, _, _)
FindSource(files, item, targetRelativePath, i) ==
  IF i > Len(files) THEN 0
  ELSE IF files[i].name = item \/ files[i].relativePath = targetRelativePath THEN i
  ELSE FindSource(files, item, targetRelativePath, i + 1)

\* frontmatterFields || Object.keys(sourceData.data)
FieldsToUpdate(sourceData, a) ==
  IF a.frontmatterFields.given THEN a.frontmatterFields.fields ELSE DOMAIN sourceData

\* A copy that takes every field of the source, whatever the filter.
CopiedFieldsUnfiltered(sourceData, a) == DOMAIN sourceData

\* the fields for which sourceData.data[field] !== undefined
CopiedFields(sourceData, a) == FieldsToUpdate(sourceData, a) \cap DOMAIN sourceData

\* A merge in which a field the target already has keeps the target's value.
MergeKeepTarget(targetData, sourceData, a) ==
  [g \in (DOMAIN targetData) \cup CopiedFields(sourceData, a) |->
     IF g \in DOMAIN targetData THEN targetData[g] ELSE sourceData[g]]

\* newFrontmatter = { ...targetData.data } with the copied fields assigned
NewFrontmatter(targetData, sourceData, a) ==
  [g \in (DOMAIN targetData) \cup CopiedFields(sourceData, a) |->
     IF g \in CopiedFields(sourceData, a) THEN sourceData[g] ELSE targetData[g]]

\* if (modified) { if (!args.dryRun) { ... fs.writeFileSync(itemPath, ...) } }
CopyWritesFile(modified, dryRun) == modified /\ ~dryRun

CopyChanges(sourceData, a) ==
  IF CopiedFields(sourceData, a) = {} THEN << >>
  ELSE <<Change("copy", NoField, NoField, Null)>>

\* The body of the loop of processTargetFiles for one target file: the report,
\* whether a call threw (the run is then over), the counters and the write.
CopyToTarget(path, d, files, a) ==
  LET item == Basename(path)
      targetRelativePath == Relative(path)
      m == FindSource(files, item, targetRelativePath, 1)
      t == d[path]
  IN
  IF m = 0 THEN
    [report |-> Report(path, "no-match", FALSE, << >>, EmptyData, NoPath),
     threw |-> FALSE, matched |-> 0, modified |-> 0, wrote |-> FALSE, file |-> t]
  ELSE
    LET s == d[files[m].path]
        src == files[m].path
    IN
    IF s.fault \in {"read", "parse"} \/ t.fault \in {"read", "parse"} THEN
      [report |-> Report(path, "error", FALSE, << >>, EmptyData, src),
       threw |-> TRUE, matched |-> 1, modified |-> 0, wrote |-> FALSE, file |-> t]
    ELSE
      LET newFrontmatter == NewFrontmatter(t.data, s.data, a)
          modified == CopiedFields(s.data, a) # {}
      IN
      IF CopyWritesFile(modified, a.dryRun) THEN
        IF t.fault = "write" THEN
          [report |-> Report(path, "error", modified, CopyChanges(s.data, a), newFrontmatter, src),
           threw |-> TRUE, matched |-> 1, modified |-> 0, wrote |-> FALSE, file |-> t]
        ELSE
          [report |-> Report(path, "updated", modified, CopyChanges(s.data, a), newFrontmatter, src),
           threw |-> FALSE, matched |-> 1, modified |-> 1, wrote |-> TRUE,
           file |-> File(t.fault, newFrontmatter, t.body)]
      ELSE
        [report |-> Report(path, IF modified THEN "would-update" ELSE "no-change",
                           modified, CopyChanges(s.data, a), newFrontmatter, src),
         threw |-> FALSE, matched |-> 1, modified |-> IF modified THEN 1 ELSE 0,
         wrote |-> FALSE, file |-> t]

\* ------------------------------------------------------------- the walk
Top == stack[Len(stack)]
AtItem == pc = "walk" /\ stack # << >> /\ Top.idx <= Len(Listing(Top.dir))
\* A loop that takes the entries of a directory from the last to the first.
CurrentItemBackwards == Listing(Top.dir)[Len(Listing(Top.dir)) + 1 - Top.idx]
CurrentItem == Listing(Top.dir)[Top.idx]
CurrentPath == PathJoin(Top.dir, CurrentItem)
Advanced == [stack EXCEPT ![Len(stack)].idx = @ + 1]
Popped == SubSeq(stack, 1, Len(stack) - 1)
\* A walker that enters sub-directories whether or not recursive is set.
EntersEveryDir == Kind(CurrentPath) = "dir"
IsDirToEnter == Kind(CurrentPath) = "dir" /\ args.recursive
IsFileToVisit == Kind(CurrentPath) = "file" /\ HasExtension(CurrentItem, args.extension)
DirectoryError(dir) == Report(dir, "directory-error", FALSE, << >>, EmptyData, NoPath)

\* !args.directory && !args.interactive && !args.sourceFrontmatterDir
\* (interactive mode is not part of the model)
MissingArguments(a) == a.directory = NoPath /\ a.sourceFrontmatterDir = NoPath

\* main(): args.sourceFrontmatterDir && args.targetContentDir
CopyRequested(a) == a.sourceFrontmatterDir # NoPath /\ a.targetContentDir # NoPath

\* The check that follows parseArguments(): showHelp() and process.exit(1).
ArgumentCheck ==
  /\ pc = "start"
  /\ prog \in {"array", "copy"}
  /\ MissingArguments(args)
  /\ pc' = "exit1"
  /\ UNCHANGED <<prog, args, env, disk, disk0, stack, log, sourceFiles, matchedFiles,
                 modifiedFiles>>

\* main() of frontmatter-array.js and the directory branch of setField /
\* removeField: the first call of processDirectory.  fs.readdirSync(null)
\* throws before it reaches the file system.
StartWalk ==
  /\ pc = "start"
  /\ prog \in {"array", "editor"}
  /\ prog = "editor" => args.file = NoPath
  /\ prog = "array" => (~MissingArguments(args) /\ ~CopyRequested(args))
  /\ pc' = "walk"
  /\ IF args.directory = NoPath \/ args.directory \in env.listFail
     THEN stack' = << >> /\ log' = Append(log, DirectoryError(args.directory))
     ELSE stack' = <<[dir |-> args.directory, idx |-> 1]>> /\ log' = log
  /\ UNCHANGED <<prog, args, env, disk, disk0, sourceFiles, matchedFiles, modifiedFiles>>

\* copyFrontmatter up to the first call of processTargetFiles
StartCopy ==
  /\ pc = "start"
  /\ prog = "copy"
  /\ CopyRequested(args)
  /\ LET c == CollectItems(args.sourceFrontmatterDir, 1, << >>, args, env) IN
     /\ sourceFiles' = c.files
     /\ IF c.ok /\ args.targetContentDir \notin env.listFail
        THEN pc' = "walk" /\ stack' = <<[dir |-> args.targetContentDir, idx |-> 1]>>
        ELSE pc' = "aborted" /\ stack' = << >>
  /\ UNCHANGED <<prog, args, env, disk, disk0, log, matchedFiles, modifiedFiles>>

\* fs.statSync(itemPath) throws: the catch of the running processDirectory call
\* (of copyFrontmatter when copying) takes over.
WalkStatFails ==
  /\ AtItem
  /\ CurrentPath \in env.statFail
  /\ IF prog = "copy"
     THEN pc' = "aborted" /\ stack' = << >> /\ log' = log
     ELSE pc' = pc /\ stack' = Popped /\ log' = Append(log, DirectoryError(Top.dir))
  /\ UNCHANGED <<prog, args, env, disk, disk0, sourceFiles, matchedFiles, modifiedFiles>>

\* A recursive call without a try block of its own: a directory that cannot
\* be listed ends the calling processDirectory too.
WalkDescendUncaught ==
  /\ AtItem
  /\ CurrentPath \notin env.statFail
  /\ IsDirToEnter
  /\ IF CurrentPath \in env.listFail
     THEN IF prog = "copy"
          THEN pc' = "aborted" /\ stack' = << >> /\ log' = log
          ELSE pc' = pc /\ stack' = Popped
               /\ log' = Append(log, DirectoryError(CurrentPath))
     ELSE pc' = pc /\ log' = log
          /\ stack' = Append(Advanced, [dir |-> CurrentPath, idx |-> 1])
  /\ UNCHANGED <<prog, args, env, disk, disk0, sourceFiles, matchedFiles, modifiedFiles>>

\* stats.isDirectory() && args.recursive: the recursive call
WalkDescend ==
  /\ AtItem
  /\ CurrentPath \notin env.statFail
  /\ IsDirToEnter
  /\ IF CurrentPath \in env.listFail
     THEN IF prog = "copy"
          THEN pc' = "aborted" /\ stack' = << >> /\ log' = log
          ELSE pc' = pc /\ stack' = Advanced
               /\ log' = Append(log, DirectoryError(CurrentPath))
     ELSE pc' = pc /\ log' = log
          /\ stack' = Append(Advanced, [dir |-> CurrentPath, idx |-> 1])
  /\ UNCHANGED <<prog, args, env, disk, disk0, sourceFiles, matchedFiles, modifiedFiles>>

\* neither branch of the loop body applies
WalkSkip ==
  /\ AtItem
  /\ CurrentPath \notin env.statFail
  /\ ~IsDirToEnter
  /\ ~IsFileToVisit
  /\ stack' = Advanced
  /\ UNCHANGED <<prog, args, env, disk, disk0, pc, log, sourceFiles, matchedFiles, modifiedFiles>>

\* the loop of a processDirectory call ends
WalkReturn ==
  /\ pc = "walk"
  /\ stack # << >>
  /\ Top.idx > Len(Listing(Top.dir))
  /\ stack' = Popped
  /\ UNCHANGED <<prog, args, env, disk, disk0, pc, log, sourceFiles, matchedFiles, modifiedFiles>>

\* the outermost call returned: 'Processing complete!' / the copy summary
WalkDone ==
  /\ pc = "walk"
  /\ stack = << >>
  /\ pc' = "done"
  /\ UNCHANGED <<prog, args, env, disk, disk0, stack, log, sourceFiles, matchedFiles, modifiedFiles>>

\* frontmatter-array.js: processMarkdownFile(itemPath)
ArrayVisit ==
  /\ AtItem
  /\ prog = "array"
  /\ CurrentPath \notin env.statFail
  /\ ~IsDirToEnter
  /\ IsFileToVisit
  /\ LET r == ProcessMarkdownFile(CurrentPath, disk[CurrentPath], args) IN
     /\ disk' = IF r.wrote THEN [disk EXCEPT ![CurrentPath] = r.file] ELSE disk
     /\ log' = Append(log, r.report)
     /\ stack' = IF r.threw THEN Popped ELSE Advanced
  /\ UNCHANGED <<prog, args, env, disk0, pc, sourceFiles, matchedFiles, modifiedFiles>>

\* frontmatter-editor.js: the pattern check and processFn(itemPath)
EditorVisit ==
  /\ AtItem
  /\ prog = "editor"
  /\ CurrentPath \notin env.statFail
  /\ ~IsDirToEnter
  /\ IsFileToVisit
  /\ IF PatternMismatch(CurrentItem, args)
     THEN /\ disk' = disk
          /\ log' = Append(log, Report(CurrentPath, "pattern-mismatch", FALSE, << >>,
                                       EmptyData, NoPath))
          /\ stack' = Advanced
     ELSE LET r == UpdateFile(CurrentPath, disk[CurrentPath], args) IN
          /\ disk' = IF r.wrote THEN [disk EXCEPT ![CurrentPath] = r.file] ELSE disk
          /\ log' = Append(log, r.report)
          /\ stack' = IF r.threw THEN Popped ELSE Advanced
  /\ UNCHANGED <<prog, args, env, disk0, pc, sourceFiles, matchedFiles, modifiedFiles>>

\* frontmatter-editor.js set / remove with --file
EditorFile ==
  /\ pc = "start"
  /\ prog = "editor"
  /\ args.file # NoPath
  /\ LET r == UpdateFile(args.file, disk[args.file], args) IN
     /\ disk' = IF r.wrote THEN [disk EXCEPT ![args.file] = r.file] ELSE disk
     /\ log' = Append(log, r.report)
  /\ pc' = "done"
  /\ UNCHANGED <<prog, args, env, disk0, stack, sourceFiles, matchedFiles, modifiedFiles>>

\* copyFrontmatter: one target file of processTargetFiles
CopyVisit ==
  /\ AtItem
  /\ prog = "copy"
  /\ CurrentPath \notin env.statFail
  /\ ~IsDirToEnter
  /\ IsFileToVisit
  /\ LET r == CopyToTarget(CurrentPath, disk, sourceFiles, args) IN
     /\ disk' = IF r.wrote THEN [disk EXCEPT ![CurrentPath] = r.file] ELSE disk
     /\ log' = Append(log, r.report)
     /\ matchedFiles' = matchedFiles + r.matched
     /\ modifiedFiles' = modifiedFiles + r.modified
     /\ IF r.threw
        THEN pc' = "aborted" /\ stack' = << >>
        ELSE pc' = pc /\ stack' = Advanced
  /\ UNCHANGED <<prog, args, env, disk0, sourceFiles>>

\* processMarkdownFile called on one file
UnitPath == PathJoin(ContentRoot, N("a", ".md"))

ProcessOne ==
  /\ pc = "start"
  /\ prog = "unit"
  /\ LET r == ProcessMarkdownFile(UnitPath, disk[UnitPath], args) IN
     /\ disk' = IF r.wrote THEN [disk EXCEPT ![UnitPath] = r.file] ELSE disk
     /\ log' = Append(log, r.report)
  /\ pc' = "done"
  /\ UNCHANGED <<prog, args, env, disk0, stack, sourceFiles, matchedFiles, modifiedFiles>>

\* processMarkdownFile called on the same file by a second invocation, in
\* mode to-array or to-string with the other options as before, after a first
\* invocation in mode to-array
RunAgain ==
  /\ pc = "done"
  /\ prog = "unit"
  /\ args.mode = "to-array"
  /\ \E m \in {"to-array", "to-string"} :
       /\ args' = [args EXCEPT !.mode = m]
       /\ LET r == ProcessMarkdownFile(UnitPath, disk[UnitPath], args') IN
          /\ disk' = IF r.wrote THEN [disk EXCEPT ![UnitPath] = r.file] ELSE disk
          /\ log' = Append(log, r.report)
  /\ pc' = "again"
  /\ UNCHANGED <<prog, env, disk0, stack, sourceFiles, matchedFiles, modifiedFiles>>

\* ------------------------------------------------------------------ Init
\* parseArguments: the defaults of frontmatter-array.js, with the options of
\* frontmatter-editor.js (command, file, field, value) left unset.
DefaultArgs ==
  [directory |-> NoPath, fields |-> <<"aiKeywords">>, delimiter |-> 44,
   dryRun |-> FALSE, recursive |-> TRUE, mode |-> "to-array",
   extension |-> {".md", ".markdown"},
   addField |-> NoField, addValue |-> EmptyString, removeField |-> NoField,
   renameField |-> NoField, newFieldName |-> NoField,
   sortArrays |-> FALSE, uniqueValues |-> FALSE,
   pattern |-> [given |-> FALSE, names |-> {}],
   sourceFrontmatterDir |-> NoPath, targetContentDir |-> NoPath,
   frontmatterFields |-> [given |-> FALSE, fields |-> {}],
   command |-> "none", file |-> NoPath, field |-> NoField, value |-> EmptyString]

Modes == {"to-array", "to-string", "analyze", "validate"}
NoFaults == [listFail |-> {}, statFail |-> {}]
BodyOf(p) == p

\* the strings "a", "b", "ab", "b,a", "draft"
sA == <<97>>
sB == <<98>>
sAB == <<97, 98>>
sBcommaA == <<98, 44, 97>>

Data1(f, v) == [g \in {f} |-> v]
Data2(f, v, g, w) == [h \in {f, g} |-> IF h = f THEN v ELSE w]

\* ---- processMarkdownFile on one file: the inputs of the transform engine
ArrayElements == {sA, sB, sAB}
Arrays == UNION {[1..k -> ArrayElements] : k \in 0..MaxArrLen}
Scalars == {Num(0), Num(1), Bool(FALSE), Bool(TRUE), Null}
UnitFields == {"tags", "title"}
SmallValues ==
  {Str(EmptyString), Str(sA), Num(0), Bool(FALSE), Bool(TRUE), Null, Arr(<<sB, sA>>)}
SmallData ==
  UNION {[present -> SmallValues] : present \in SUBSET UnitFields}

UnitInit(data, a) ==
  /\ prog = "unit"
  /\ args = a
  /\ env = NoFaults
  /\ disk = [p \in {UnitPath} |-> File("none", data, BodyOf(p))]
  /\ disk0 = disk
  /\ pc = "start"
  /\ stack = << >>
  /\ log = << >>
  /\ sourceFiles = << >>
  /\ matchedFiles = 0
  /\ modifiedFiles = 0

\* a string field of any content, converted either way
InitStrings ==
  \E s \in StringsUpTo(Chars, MaxStrLen), m \in {"to-array", "to-string"},
     d \in {44, 32}, so \in BOOLEAN, un \in BOOLEAN :
    UnitInit(Data1("tags", Str(s)),
             [DefaultArgs EXCEPT !.directory = ContentRoot, !.fields = <<"tags">>,
                                 !.mode = m, !.delimiter = d,
                                 !.sortArrays = so, !.uniqueValues = un])

\* an array or scalar field beside a string field, every mode
InitArrays ==
  \E v \in {Arr(x) : x \in Arrays} \cup Scalars,
     withTitle \in BOOLEAN, m \in Modes,
     fs \in {<<"tags">>, <<"tags", "title">>, <<"title", "tags">>, <<"tags", "tags">>},
     so \in BOOLEAN, un \in BOOLEAN :
    UnitInit(IF withTitle THEN Data2("tags", v, "title", Str(sBcommaA)) ELSE Data1("tags", v),
             [DefaultArgs EXCEPT !.directory = ContentRoot, !.fields = fs, !.mode = m,
                                 !.sortArrays = so, !.uniqueValues = un])

\* the field operations, alone and together, after a conversion
InitFieldOps ==
  \E data \in SmallData, m \in {"to-array", "to-string"}, so \in BOOLEAN,
     add \in {NoField} \cup UnitFields, av \in {EmptyString, sA},
     rem \in {NoField} \cup UnitFields,
     old \in {NoField} \cup UnitFields, new \in {NoField, "slug"} \cup UnitFields :
    /\ add = NoField => av = EmptyString
    /\ old = NoField => new = NoField
    /\ UnitInit(data,
                [DefaultArgs EXCEPT !.directory = ContentRoot, !.fields = <<"tags">>,
                                    !.mode = m, !.sortArrays = so,
                                    !.addField = add, !.addValue = av,
                                    !.removeField = rem,
                                    !.renameField = old, !.newFieldName = new])

\* analyze and validate with field operations and array options on the
\* command line
InitTerminal ==
  \E data \in SmallData, m \in {"analyze", "validate"}, so \in BOOLEAN, un \in BOOLEAN,
     add \in {NoField, "slug"} \cup UnitFields, rem \in {NoField} \cup UnitFields,
     ren \in BOOLEAN, fs \in {<<"tags">>, <<"tags", "title">>, <<"slug">>} :
    UnitInit(data,
             [DefaultArgs EXCEPT !.directory = ContentRoot, !.fields = fs, !.mode = m,
                                 !.sortArrays = so, !.uniqueValues = un,
                                 !.addField = add,
                                 !.addValue = IF add = NoField THEN EmptyString ELSE sA,
                                 !.removeField = rem,
                                 !.renameField = IF ren THEN "title" ELSE NoField,
                                 !.newFieldName = IF ren THEN "slug" ELSE NoField])

\* The commands the wizard's field operations build, and the README's
\* field-operation examples: a directory and the options of one operation,
\* every other option at its default.
WizardFields == {"aiKeywords", "title"}
WizardNames == WizardFields \cup {"slug"}
WizardValues == {sA, sBcommaA}
WizardData ==
  UNION {[present -> SmallValues] : present \in SUBSET WizardFields}
WizardDefaults == [DefaultArgs EXCEPT !.directory = ContentRoot]
WizardAdd(name, value) ==
  [WizardDefaults EXCEPT !.addField = name, !.addValue = value]
WizardAddArray(name, value) ==
  [WizardDefaults EXCEPT !.addField = name, !.addValue = value,
                         !.mode = "to-array", !.fields = <<name>>]
WizardRename(old, new) ==
  [WizardDefaults EXCEPT !.renameField = old, !.newFieldName = new]
WizardRenameUpdate(old, new, value) ==
  [WizardDefaults EXCEPT !.renameField = old, !.newFieldName = new,
                         !.addField = new, !.addValue = value]
WizardRemove(name) ==
  [WizardDefaults EXCEPT !.removeField = name]
WizardCommands ==
  {WizardAdd(n, v) : n \in WizardNames, v \in WizardValues \cup {EmptyString}}
  \cup {WizardAddArray(n, v) : n \in WizardNames, v \in WizardValues}
  \cup {WizardRename(o, n) : o \in WizardNames, n \in WizardNames}
  \cup {WizardRenameUpdate(o[1], o[2], v) :
          o \in WizardNames \X WizardNames, v \in WizardValues}
  \cup {WizardRemove(n) : n \in WizardNames}
InitWizard ==
  \E data \in WizardData, a \in WizardCommands : UnitInit(data, a)

InitEngine == InitStrings \/ InitArrays \/ InitFieldOps \/ InitTerminal \/ InitWizard

\* ---- the three programs on the directory trees
ProgInit(pr, a, e, d) ==
  /\ prog = pr
  /\ args = a
  /\ env = e
  /\ disk = d
  /\ disk0 = d
  /\ pc = "start"
  /\ stack = << >>
  /\ log = << >>
  /\ sourceFiles = << >>
  /\ matchedFiles = 0
  /\ modifiedFiles = 0

StringTags == Data1("tags", Str(sBcommaA))
ArrayTags == Data2("tags", Arr(<<sB, sA>>), "title", Str(sA))

\* a content file: unreadable, malformed, read-only, or sound with either metadata
ContentChoices(p) ==
  {File("read", EmptyData, BodyOf(p)), File("parse", EmptyData, BodyOf(p)),
   File("write", StringTags, BodyOf(p)), File("none", StringTags, BodyOf(p)),
   File("none", ArrayTags, BodyOf(p)), File("write", ArrayTags, BodyOf(p))}
SoundChoices(p) == {File("none", StringTags, BodyOf(p)), File("none", ArrayTags, BodyOf(p))}

\* the disks of the content tree: one choice per file, sound files only or any
ContentDisks(sound) ==
  {c \in [ContentFiles -> UNION {ContentChoices(p) : p \in ContentFiles}] :
     \A p \in ContentFiles :
       c[p] \in (IF sound THEN SoundChoices(p) ELSE ContentChoices(p))}

ArrayOps ==
  {[DefaultArgs EXCEPT !.directory = ContentRoot, !.fields = <<"tags">>],
   [DefaultArgs EXCEPT !.directory = ContentRoot, !.fields = <<"tags">>, !.sortArrays = TRUE],
   [DefaultArgs EXCEPT !.directory = ContentRoot, !.fields = <<"tags">>,
                       !.removeField = "title"]}

\* frontmatter-array.js <directory>: files that fail and files that do not
InitArrayFiles ==
  \E d \in ContentDisks(FALSE), a \in ArrayOps, m \in Modes, dry \in BOOLEAN :
    ProgInit("array", [a EXCEPT !.mode = m, !.dryRun = dry], NoFaults, d)

WalkFaults ==
  {NoFaults,
   [listFail |-> {DocsDir}, statFail |-> {}],
   [listFail |-> {ContentRoot}, statFail |-> {}],
   [listFail |-> {}, statFail |-> {DocsDir}],
   [listFail |-> {}, statFail |-> {PathJoin(ContentRoot, N("a", ".md"))}],
   [listFail |-> {}, statFail |-> {PathJoin(ContentRoot, N("notes", ".txt"))}]}

Patterns ==
  {[given |-> FALSE, names |-> {}],
   [given |-> TRUE, names |-> {N("a", ".md"), N("b", ".md")}]}

\* frontmatter-array.js <directory>: directories and entries that fail
InitArrayWalk ==
  \E d \in ContentDisks(TRUE), e \in WalkFaults, rec \in BOOLEAN,
     pat \in Patterns, dry \in BOOLEAN :
    ProgInit("array",
             [DefaultArgs EXCEPT !.directory = ContentRoot, !.fields = <<"tags">>,
                                 !.recursive = rec, !.pattern = pat, !.dryRun = dry],
             e, d)

\* the options of frontmatter-editor.js: recursive is off unless asked for
EditorArgs == [DefaultArgs EXCEPT !.recursive = FALSE, !.fields = << >>]
EditorValues == {sA, True, False, <<55>>, <<91, 93>>, <<91>>}

\* frontmatter-editor.js set / remove, on one file or on a directory
InitEditor ==
  \E d \in ContentDisks(FALSE), cmd \in {"set", "remove"},
     v \in EditorValues, dry \in BOOLEAN,
     target \in {"file", "directory", "recursive"} :
    /\ cmd = "remove" => v = sA
    /\ ProgInit("editor",
                [EditorArgs EXCEPT !.command = cmd, !.field = "title", !.value = v,
                                   !.dryRun = dry,
                                   !.file = IF target = "file" THEN UnitPath ELSE NoPath,
                                   !.directory = IF target = "file" THEN NoPath ELSE ContentRoot,
                                   !.recursive = (target = "recursive")],
                NoFaults, d)

\* frontmatter-editor.js on a directory: directories and entries that fail
InitEditorWalk ==
  \E d \in ContentDisks(TRUE), e \in WalkFaults, rec \in BOOLEAN, pat \in Patterns :
    ProgInit("editor",
             [EditorArgs EXCEPT !.command = "remove", !.field = "title",
                                !.directory = ContentRoot, !.recursive = rec, !.pattern = pat],
             e, d)

SourceData1 == Data2("title", Str(sA), "tags", Arr(<<sA>>))
SourceData2 == Data1("title", Str(sB))
TargetData1 == Data2("title", Str(sAB), "draft", Bool(TRUE))

SourceChoices(p) ==
  IF p = PathJoin(SourceRoot, N("y", ".md"))
  THEN {File("none", SourceData1, BodyOf(p)), File("none", SourceData2, BodyOf(p))}
  ELSE {File("read", EmptyData, BodyOf(p)), File("parse", EmptyData, BodyOf(p)),
        File("none", SourceData1, BodyOf(p)), File("none", SourceData2, BodyOf(p)),
        File("none", EmptyData, BodyOf(p))}
TargetChoices(p) ==
  IF p \in {PathJoin(TargetRoot, N("y", ".md")), PathJoin(TargetRoot, N("z", ".md"))}
  THEN {File("none", TargetData1, BodyOf(p)), File("read", EmptyData, BodyOf(p))}
  ELSE {File("read", EmptyData, BodyOf(p)), File("parse", EmptyData, BodyOf(p)),
        File("write", TargetData1, BodyOf(p)), File("none", TargetData1, BodyOf(p)),
        File("none", EmptyData, BodyOf(p))}

CopyDisks ==
  {[p \in SourceFiles \cup TargetFiles |-> IF p \in SourceFiles THEN s[p] ELSE t[p]] :
     s \in {s \in [SourceFiles -> UNION {SourceChoices(p) : p \in SourceFiles}] :
              \A p \in SourceFiles : s[p] \in SourceChoices(p)},
     t \in {t \in [TargetFiles -> UNION {TargetChoices(p) : p \in TargetFiles}] :
              \A p \in TargetFiles : t[p] \in TargetChoices(p)}}

CopyArgs ==
  [DefaultArgs EXCEPT !.sourceFrontmatterDir = SourceRoot, !.targetContentDir = TargetRoot]

FieldFilters ==
  {[given |-> FALSE, fields |-> {}],
   [given |-> TRUE, fields |-> {"title"}],
   [given |-> TRUE, fields |-> {"tags", "draft"}]}

\* frontmatter-array.js --copy-frontmatter <source> <target>
InitCopy ==
  \E d \in CopyDisks, ff \in FieldFilters, dry \in BOOLEAN :
    ProgInit("copy", [CopyArgs EXCEPT !.frontmatterFields = ff, !.dryRun = dry], NoFaults, d)

CopyFaults ==
  {[listFail |-> {SourceSub}, statFail |-> {}],
   [listFail |-> {TargetRoot}, statFail |-> {}],
   [listFail |-> {TargetSub}, statFail |-> {}],
   [listFail |-> {}, statFail |-> {PathJoin(TargetRoot, N("x", ".md"))}]}

\* copy-frontmatter: directories and entries that fail
InitCopyWalk ==
  \E e \in CopyFaults, rec \in BOOLEAN :
    ProgInit("copy", [CopyArgs EXCEPT !.recursive = rec], e,
             [p \in SourceFiles \cup TargetFiles |->
                IF p \in SourceFiles THEN File("none", SourceData1, BodyOf(p))
                ELSE File("none", TargetData1, BodyOf(p))])

\* copy-frontmatter with one directory given as the source and as the target
InitCopyOverlap ==
  \E d \in CopyDisks, dry \in BOOLEAN :
    /\ \A p \in TargetFiles : d[p] = File("none", TargetData1, BodyOf(p))
    /\ ProgInit("copy",
                [CopyArgs EXCEPT !.targetContentDir = SourceRoot, !.dryRun = dry],
                NoFaults, d)

\* frontmatter-array.js without a directory and without a complete
\* --copy-frontmatter pair: no option at all, or a source and no target
InitIncomplete ==
  \E d \in ContentDisks(TRUE), src \in {NoPath, SourceRoot}, m \in Modes, dry \in BOOLEAN :
    ProgInit("array",
             [DefaultArgs EXCEPT !.sourceFrontmatterDir = src, !.mode = m, !.dryRun = dry,
                                 !.fields = <<"tags">>],
             NoFaults, d)

Init ==
  \/ InitArrayFiles
  \/ InitIncomplete
  \/ InitArrayWalk
  \/ InitEditor
  \/ InitEditorWalk
  \/ InitCopy
  \/ InitCopyWalk
  \/ InitCopyOverlap

Next ==
  \/ ArgumentCheck
  \/ StartWalk
  \/ StartCopy
  \/ WalkStatFails
  \/ WalkDescend
  \/ WalkSkip
  \/ WalkReturn
  \/ WalkDone
  \/ ArrayVisit
  \/ EditorVisit
  \/ EditorFile
  \/ CopyVisit

\* The scripts, run on the content, source and target trees.
Spec == Init /\ [][Next]_vars

NextEngine ==
  \/ ProcessOne
  \/ RunAgain

\* processMarkdownFile, run on one file, once or twice.
SpecEngine == InitEngine /\ [][NextEngine]_vars

\* ================================================================ claims
Entries == 1..Len(log)
FileEntries == {i \in Entries : log[i].kind # "directory-error"}
LoggedPaths == [i \in Entries |-> log[i].path]
Finished == pc \in {"done", "aborted"}

\* The report the per-file handler gives for path p from the disk as it was
\* before the run, when the run is not a dry run.
RealReport(p) ==
  LET a == [args EXCEPT !.dryRun = FALSE] IN
  IF prog = "copy" THEN CopyToTarget(p, disk0, sourceFiles, a).report
  ELSE IF prog = "editor" THEN UpdateFile(p, disk0[p], a).report
  ELSE ProcessMarkdownFile(p, disk0[p], a).report

RECURSIVE VisitsFrom(_, _)
VisitsFrom(dir, i) ==
  IF i > Len(Listing(dir)) THEN << >>
  ELSE LET item == Listing(dir)[i]
           p == PathJoin(dir, item)
       IN (IF Kind(p) = "dir" /\ args.recursive THEN VisitsFrom(p, 1)
           ELSE IF Kind(p) = "file" /\ HasExtension(item, args.extension) THEN <<p>>
           ELSE << >>)
          \o VisitsFrom(dir, i + 1)

IsPrefix(s, u) == Len(s) <= Len(u) /\ s = SubSeq(u, 1, Len(s))

\* C2: in a directory run of frontmatter-array.js or frontmatter-editor.js in
\* which no directory call fails, a file whose read, parse or write fails is
\* reported as an error and left as it was, and every enumerated file, before
\* and after it, in the same and in other directories, is handled: the
\* reports follow the enumeration and at the end cover all of it.
C2_FileFailureIsolated ==
  (prog \in {"array", "editor"} /\ args.file = NoPath /\ args.directory # NoPath
     /\ env = NoFaults) =>
    /\ IsPrefix(LoggedPaths, VisitsFrom(args.directory, 1))
    /\ pc = "done" => LoggedPaths = VisitsFrom(args.directory, 1)
    /\ \A i \in Entries :
         /\ log[i].kind = "error" =>
              /\ disk[log[i].path] = disk0[log[i].path]
              /\ disk0[log[i].path].fault # "none"
         /\ disk0[log[i].path].fault \in {"read", "parse"}
              /\ ~PatternMismatch(Basename(log[i].path), args)
              => log[i].kind = "error"

C2_Witness ==
  /\ prog = "array"
  /\ pc = "done"
  /\ Len(log) = 3
  /\ log[1].kind = "error" /\ disk0[log[1].path].fault = "parse"
  /\ log[2].kind = "error" /\ disk0[log[2].path].fault = "write"
  /\ log[3].kind = "updated"

\* C3: processMarkdownFile writes the file exactly when the change log is
\* not empty and the run is not a dry run; the file on disk then holds the
\* transformed metadata and the old body; with an empty change log modified
\* is false and the file on disk is as it was.
C3_WritesIffChanged ==
  prog = "array" =>
    /\ \A i \in Entries :
         LET r == log[i]
             attempted == r.kind = "updated" \/ (r.kind = "error" /\ r.modified)
         IN r.kind \in {"updated", "would-update", "no-change", "error"} =>
              /\ attempted <=> (r.changes # << >> /\ ~args.dryRun)
              /\ r.modified <=> r.changes # << >>
              /\ r.kind = "updated" =>
                   disk[r.path] = File(disk0[r.path].fault, r.data, disk0[r.path].body)
              /\ r.kind # "updated" => disk[r.path] = disk0[r.path]
              /\ r.changes = << >> => r.kind \in {"no-change", "error"}
    /\ \A p \in DOMAIN disk :
         disk[p] # disk0[p] => \E i \in Entries : log[i].path = p /\ log[i].kind = "updated"

C3_Witness ==
  /\ prog = "array"
  /\ ~args.dryRun
  /\ \E i, j \in Entries :
       /\ log[i].kind = "updated" /\ disk[log[i].path] # disk0[log[i].path]
       /\ log[j].kind = "no-change" /\ log[j].changes = << >>

\* ---- processMarkdownFile on one file
UnitDone == prog = "unit" /\ pc = "done"
Initial == disk0[UnitPath].data
Final == log[1].data
Changes == log[1].changes
Requested == {args.fields[i] : i \in 1..Len(args.fields)}
NoFieldOps ==
  args.addField = NoField /\ args.removeField = NoField /\ args.renameField = NoField
Records(type, f) == {i \in 1..Len(Changes) : Changes[i].type = type /\ Changes[i].field = f}
RecordsOfType(type) == {i \in 1..Len(Changes) : Changes[i].type = type}

\* C4: after to-array, every requested field that held a string holds the
\* sequence of its trimmed, non-empty pieces (deduplicated keeping the first
\* occurrence with uniqueValues, sorted ascending with sortArrays), and the
\* change log has exactly one convert-to-array record for it.
C4_StringBecomesArray ==
  (UnitDone /\ args.mode = "to-array" /\ NoFieldOps) =>
    \A f \in Requested :
      (Has(Initial, f) /\ IsString(Initial[f])) =>
        /\ Has(Final, f)
        /\ Final[f] = Arr(SplitToArray(Initial[f].s, args))
        /\ Cardinality(Records("convert-to-array", f)) = 1

\* C5: after to-array with sortArrays or uniqueValues, a requested field that
\* held an array holds the array deduplicated (if uniqueValues) and then
\* sorted (if sortArrays); when that differs from the original array there is
\* a change record, the file counts as modified and is written; when it is
\* equal there is no change record.
C5_ArrayIsProcessed ==
  (UnitDone /\ args.mode = "to-array" /\ NoFieldOps
     /\ (args.sortArrays \/ args.uniqueValues)) =>
    \A f \in Requested :
      (Has(Initial, f) /\ IsArray(Initial[f])) =>
        LET result == ProcessedArray(Initial[f].a, args) IN
        IF result # Initial[f].a
        THEN /\ Final[f] = Arr(result)
             /\ Records("process-array", f) # {}
             /\ log[1].modified
             /\ log[1].kind = "updated"
             /\ disk[UnitPath].data[f] = Arr(result)
        ELSE /\ Final[f] = Initial[f]
             /\ Records("process-array", f) = {}

\* C6: add-field on metadata that already has the field, with any value,
\* records no add-field change and leaves the value as it was; on metadata
\* without the field it sets it, with exactly one add-field record.
C6_AddNeverOverwrites ==
  (UnitDone /\ args.mode \in {"to-array", "to-string"} /\ args.addField # NoField) =>
    LET f == args.addField IN
    IF Has(Initial, f)
    THEN /\ Records("add-field", f) = {}
         /\ (f \notin Requested /\ args.removeField # f /\ args.renameField # f
               /\ args.newFieldName # f)
              => (Has(Final, f) /\ Final[f] = Initial[f])
    ELSE /\ Cardinality(Records("add-field", f)) = 1
         /\ \A i \in Records("add-field", f) : Changes[i].value = Str(args.addValue)

Rank(type) ==
  CASE type \in {"convert-to-array", "process-array", "convert-to-string"} -> 1
    [] type = "add-field" -> 2
    [] type = "remove-field" -> 3
    [] type = "rename-field" -> 4

\* C7: the change log lists conversions, then add-field, then remove-field,
\* then rename-field, and each step works on the metadata the steps before
\* it left: a field converted by to-array is not added again and is renamed
\* as an array, a field that is added and removed is gone, a field that is
\* removed is not renamed, a field that is added is renamed with the added
\* value, and a field that is only added is not converted.
C7_OperationOrder ==
  (UnitDone /\ args.mode \in {"to-array", "to-string"}) =>
    LET add == args.addField
        rem == args.removeField
        old == args.renameField
        new == args.newFieldName
        converted(f) == args.mode = "to-array" /\ f \in Requested
                        /\ TruthyField(Initial, f) /\ IsString(Initial[f])
    IN
    /\ \A i, j \in 1..Len(Changes) : i < j => Rank(Changes[i].type) <= Rank(Changes[j].type)
    /\ \A ty \in {"add-field", "remove-field", "rename-field"} :
         Cardinality(RecordsOfType(ty)) <= 1
    /\ (add # NoField /\ converted(add)) => RecordsOfType("add-field") = {}
    /\ (add # NoField /\ ~Has(Initial, add) /\ rem # add /\ old # add /\ new # add) =>
         (Has(Final, add) /\ Final[add] = Str(args.addValue))
    /\ (add # NoField /\ add = rem /\ Has(Final, add)) =>
         (new = add /\ RecordsOfType("rename-field") # {})
    /\ (rem # NoField /\ rem = old) => RecordsOfType("rename-field") = {}
    /\ (add # NoField /\ ~Has(Initial, add) /\ old = add /\ rem # add
          /\ new \notin {NoField, add}) =>
         (Has(Final, new) /\ Final[new] = Str(args.addValue) /\ ~Has(Final, add))
    /\ \A f \in Requested :
         (converted(f) /\ old = f /\ rem # f /\ new \notin {NoField, f}) =>
           (Has(Final, new) /\ Final[new] = Arr(SplitToArray(Initial[f].s, args)))

C7_Witness ==
  /\ UnitDone
  /\ Len(Changes) = 4
  /\ Changes[1].type = "convert-to-array"
  /\ Changes[2].type = "add-field"
  /\ Changes[3].type = "remove-field"
  /\ Changes[4].type = "rename-field"
  /\ args.newFieldName = "slug"
  /\ Has(Final, "slug") /\ IsArray(Final["slug"])

\* The entries of the log where copy-frontmatter paired a target with a source.
Paired == {i \in Entries : prog = "copy" /\ log[i].source # NoPath}
SourceRelativePaths == {sourceFiles[j].relativePath : j \in 1..Len(sourceFiles)}

\* C8: when copy-frontmatter pairs a target file with a source file and some
\* source file has the target's relative path, the source chosen is the one
\* with that relative path, also when a source file of the same basename in
\* another subdirectory was enumerated earlier.
C8_ExactPathPreferred ==
  \A i \in Paired :
    Relative(log[i].path) \in SourceRelativePaths =>
      Relative(log[i].source) = Relative(log[i].path)

\* The entries of the log where copy-frontmatter read both files of a pair.
Merged == {i \in Paired : log[i].kind \in {"updated", "would-update", "no-change"}}

\* C9: for a matched target file, every field of the filter (every field of
\* the source when there is no filter) that the source defines has the
\* source's value in the new metadata, every other field of the target keeps
\* its value, no other field appears, and a write stores that metadata with
\* the body the target had; without a write the target is as it was.
C9_MergeSemantics ==
  \A i \in Merged :
    LET r == log[i]
        src == disk0[r.source].data
        tgt == disk0[r.path].data
        filter == IF args.frontmatterFields.given
                  THEN args.frontmatterFields.fields ELSE DOMAIN src
        copied == filter \cap DOMAIN src
    IN
    /\ DOMAIN r.data = (DOMAIN tgt) \cup copied
    /\ \A g \in copied : r.data[g] = src[g]
    /\ \A g \in (DOMAIN tgt) \ copied : r.data[g] = tgt[g]
    /\ r.kind = "updated" =>
         (disk[r.path].data = r.data /\ disk[r.path].body = disk0[r.path].body)
    /\ r.kind # "updated" => disk[r.path] = disk0[r.path]
    /\ (r.kind = "no-change") = (copied = {})

\* The scenario of the merge: only title is copied, the target's title is
\* overwritten and its draft field is untouched.
C9_Witness ==
  \E i \in Merged :
    LET r == log[i] IN
    /\ r.kind = "updated"
    /\ args.frontmatterFields = [given |-> TRUE, fields |-> {"title"}]
    /\ disk0[r.source].data = SourceData1
    /\ disk0[r.path].data = TargetData1
    /\ disk[r.path].data = Data2("title", Str(sA), "draft", Bool(TRUE))

\* The entries of the log where reading or parsing a matched source file or
\* its target file failed.
ReadFailures ==
  {i \in Paired : log[i].kind = "error"
                   /\ (disk0[log[i].path].fault \in {"read", "parse"}
                       \/ disk0[log[i].source].fault \in {"read", "parse"})}

\* C10: a failure to read or parse a matched source file or a target file
\* during copy-frontmatter skips that target file only: the run goes on to
\* the remaining target files and ends with its summary.
C10_CopyFailureIsolated ==
  ReadFailures # {} => pc # "aborted"

\* The run is over: main() returned or the process exited.
Exited == pc \in {"done", "aborted", "exit1"}

\* C11: a run of frontmatter-array.js whose command line gives neither a
\* directory nor both a copy source and a copy target ends with exit code 1,
\* having reported nothing about any file or directory and with the disk as
\* it was.
C11_ConfigErrorIsFatal ==
  (prog = "array" /\ args.directory = NoPath /\ ~CopyRequested(args) /\ Exited) =>
    (pc = "exit1" /\ log = << >> /\ disk = disk0)

\* Runs of processMarkdownFile in which rename-field is the only operation that
\* acts: no add-field, no remove-field, no sorting, no conversion recorded.
RenameOnly ==
  /\ UnitDone
  /\ args.mode \in {"to-array", "to-string"}
  /\ args.addField = NoField /\ args.removeField = NoField
  /\ ~args.sortArrays /\ ~args.uniqueValues
  /\ \A i \in 1..Len(Changes) : Changes[i].type = "rename-field"

RenameApplies ==
  args.renameField # NoField /\ args.newFieldName # NoField /\ Has(Initial, args.renameField)

OneRenameRecord ==
  /\ Len(Changes) = 1
  /\ Changes[1].field = args.renameField
  /\ Changes[1].newField = args.newFieldName

\* C12: rename-field with the old name present and a new name given leaves
\* the new name holding the old name's value (a prior value under the new name
\* is discarded) and the old name, when it is another name, absent, with
\* exactly one rename-field record; with the old name absent or no new name
\* given the metadata is unchanged and there is no record.
C12_RenameField ==
  RenameOnly =>
    IF RenameApplies THEN
      /\ Has(Final, args.newFieldName)
      /\ Final[args.newFieldName] = Initial[args.renameField]
      /\ args.newFieldName # args.renameField => ~Has(Final, args.renameField)
      /\ \A g \in (DOMAIN Initial) \ {args.renameField, args.newFieldName} :
           Has(Final, g) /\ Final[g] = Initial[g]
      /\ OneRenameRecord
    ELSE Final = Initial /\ Changes = << >>

\* ---- processMarkdownFile on one file, twice
\* The second invocation has run; the first was in mode to-array, neither is
\* a dry run and neither has a field operation.
RanTwice == prog = "unit" /\ pc = "again" /\ ~args.dryRun /\ NoFieldOps
OnDisk == disk[UnitPath].data
SecondChanges == log[2].changes

\* The pieces String.prototype.split gives for s (the delimiter is in none).
Pieces(s) == Split(s, args.delimiter)

\* Every piece of s is non-empty and has no white space at either end.
CleanPieces(s) ==
  \A i \in 1..Len(Pieces(s)) :
    LET piece == Pieces(s)[i] IN
    /\ piece # EmptyString
    /\ piece[1] \notin WhiteSpace
    /\ piece[Len(piece)] \notin WhiteSpace

\* The statement of C13 as given: to-array and then to-string with the same
\* delimiter and without sortArrays and uniqueValues gives back the string
\* the field held, whatever the string.
C13_RoundTripAnyString ==
  (RanTwice /\ args.mode = "to-string" /\ ~args.sortArrays /\ ~args.uniqueValues) =>
    \A f \in Requested :
      (Has(Initial, f) /\ IsString(Initial[f])) =>
        (Has(OnDisk, f) /\ OnDisk[f] = Initial[f])

\* C13: to-array and then to-string with the same delimiter and without
\* sortArrays and uniqueValues gives back the string the field held when
\* every piece of the string between delimiters is non-empty and has no
\* white space at its ends (to-array trims the pieces and drops the empty
\* ones, to-string joins with the bare delimiter).
C13_RoundTrip ==
  (RanTwice /\ args.mode = "to-string" /\ ~args.sortArrays /\ ~args.uniqueValues) =>
    \A f \in Requested :
      (Has(Initial, f) /\ IsString(Initial[f]) /\ CleanPieces(Initial[f].s)) =>
        (Has(OnDisk, f) /\ OnDisk[f] = Initial[f])

\* A string of two entries went to an array and came back.
C13_Witness ==
  /\ RanTwice /\ args.mode = "to-string" /\ ~args.sortArrays /\ ~args.uniqueValues
  /\ Initial = Data1("tags", Str(sBcommaA))
  /\ args.delimiter = 44
  /\ log[1].data = Data1("tags", Arr(<<sB, sA>>))
  /\ Len(SecondChanges) = 1 /\ SecondChanges[1].type = "convert-to-string"
  /\ OnDisk = Initial

\* An array in the form to-array leaves it in under the options given.
FinalForm(arr) ==
  /\ args.uniqueValues => NoDuplicates(arr)
  /\ args.sortArrays => IsSorted(arr)

\* C14: to-array on a requested field that is an array already in its final
\* form under the same options leaves the field as it is and records no
\* change for it; and a second to-array invocation with the same options on
\* the file a first one handled records no change and leaves the file as the
\* first one left it.
C14_ToArrayIdempotent ==
  /\ (UnitDone /\ args.mode = "to-array" /\ NoFieldOps) =>
       \A f \in Requested :
         (Has(Initial, f) /\ IsArray(Initial[f]) /\ FinalForm(Initial[f].a)) =>
           /\ Final[f] = Initial[f]
           /\ \A i \in 1..Len(Changes) : Changes[i].field # f
  /\ (RanTwice /\ args.mode = "to-array") =>
       /\ SecondChanges = << >>
       /\ ~log[2].modified
       /\ log[2].kind = "no-change"
       /\ OnDisk = (IF log[1].kind = "updated" THEN log[1].data ELSE Initial)

\* A string was converted, deduplicated and sorted by the first invocation and
\* the second found nothing to do.
C14_Witness ==
  /\ RanTwice /\ args.mode = "to-array" /\ args.sortArrays /\ args.uniqueValues
  /\ Initial = Data1("tags", Str(<<98, 44, 97, 44, 98>>))
  /\ log[1].kind = "updated"
  /\ log[1].data = Data1("tags", Arr(<<sA, sB>>))
  /\ SecondChanges = << >>
  /\ OnDisk = log[1].data

\* ---- analyze and validate
\* C15: in mode analyze or validate, with any field operation and array
\* option on the command line and not in dry-run, the file is not written,
\* the metadata is as parsed, nothing is recorded as changed and the file is
\* not counted as modified.
C15_TerminalModesDoNotMutate ==
  (UnitDone /\ args.mode \in {"analyze", "validate"}) =>
    /\ disk = disk0
    /\ Final = Initial
    /\ Changes = << >>
    /\ ~log[1].modified
    /\ log[1].kind \in {"analyze", "validation-failed", "validation-passed"}

\* analyze and validate ran with an add-field, a remove-field and a
\* rename-field that would each have acted in a converting mode.
C15_Witness ==
  /\ UnitDone /\ args.mode = "validate" /\ ~args.dryRun /\ args.sortArrays
  /\ args.addField = "slug" /\ args.removeField = "tags" /\ args.renameField = "title"
  /\ Initial = Data2("tags", Arr(<<sB, sA>>), "title", Str(sA))
  /\ log[1].kind = "validation-passed"
  /\ disk = disk0

\* The requested fields validate reports as missing.
ReportedMissing ==
  LET m == MissingFields(Initial, args) IN {m[i] : i \in 1..Len(m)}

\* C16: validate reports as missing exactly the requested fields that are
\* absent from the metadata (a field present with false, 0 or the empty
\* string is not missing), and validation fails for the file exactly when
\* some requested field is absent.
C16_MissingAreAbsent ==
  (UnitDone /\ args.mode = "validate") =>
    /\ ReportedMissing = {f \in Requested : ~Has(Initial, f)}
    /\ (log[1].kind = "validation-failed") = (\E f \in Requested : ~Has(Initial, f))

\* ---- to-string
\* The elements of arr with the code unit d between neighbours.
Joined(arr, d) ==
  LET upTo[i \in 0..Len(arr)] ==
        IF i = 0 THEN EmptyString
        ELSE IF i = 1 THEN arr[1]
        ELSE upTo[i - 1] \o <<d>> \o arr[i]
  IN upTo[Len(arr)]

\* C17: after to-string every requested field that held an array, the empty
\* array included, holds the string of its elements joined by the delimiter,
\* with exactly one convert-to-string record; every other field is as it
\* was, with no record, and no field appears or disappears.
C17_ArrayBecomesString ==
  (UnitDone /\ args.mode = "to-string" /\ NoFieldOps) =>
    /\ DOMAIN Final = DOMAIN Initial
    /\ \A f \in (DOMAIN Initial) \cup Requested :
         IF f \in Requested /\ Has(Initial, f) /\ IsArray(Initial[f]) THEN
           /\ Final[f] = Str(Joined(Initial[f].a, args.delimiter))
           /\ Cardinality(Records("convert-to-string", f)) = 1
           /\ \A i \in Records("convert-to-string", f) : Changes[i].value = Final[f]
         ELSE
           /\ Has(Initial, f) => Final[f] = Initial[f]
           /\ \A i \in 1..Len(Changes) : Changes[i].field # f
    /\ \A i \in 1..Len(Changes) : Changes[i].type = "convert-to-string"

\* An array of two elements became a string and the requested string field
\* beside it stayed as it was.
C17_Witness ==
  /\ UnitDone /\ args.mode = "to-string" /\ NoFieldOps
  /\ args.fields = <<"tags", "title">>
  /\ Initial = Data2("tags", Arr(<<sB, sA>>), "title", Str(sBcommaA))
  /\ Final = Data2("tags", Str(sBcommaA), "title", Str(sBcommaA))
  /\ Len(Changes) = 1
  /\ log[1].kind = "updated"

\* ---- the counters of copy-frontmatter
\* The target files the run enumerates, in order.
TargetVisits == VisitsFrom(args.targetContentDir, 1)

\* The target files for which some collected source file has the same
\* basename or the same relative path.
TargetsWithSource ==
  {i \in 1..Len(TargetVisits) :
     \E j \in 1..Len(sourceFiles) :
       \/ sourceFiles[j].name = Basename(TargetVisits[i])
       \/ sourceFiles[j].relativePath = Relative(TargetVisits[i])}

\* Those of them whose source defines at least one of the fields to copy.
TargetsWithCopy ==
  {i \in TargetsWithSource :
     \E k \in Entries :
       /\ log[k].path = TargetVisits[i]
       /\ LET src == disk0[log[k].source].data IN
          IF args.frontmatterFields.given
          THEN args.frontmatterFields.fields \cap DOMAIN src # {}
          ELSE DOMAIN src # {}}

\* C18: when a copy run ends with its summary, the matched count is the
\* number of target files for which a source file was found and the modified
\* count is the number of those for which the source defines a field that
\* was copied; neither number depends on dryRun; and modified never exceeds
\* matched.
C18_SummaryCounts ==
  prog = "copy" =>
    /\ modifiedFiles <= matchedFiles
    /\ pc = "done" =>
         /\ matchedFiles = Cardinality(TargetsWithSource)
         /\ modifiedFiles = Cardinality(TargetsWithCopy)
         /\ matchedFiles = Cardinality({k \in Entries : log[k].source # NoPath})
         /\ modifiedFiles =
              Cardinality({k \in Entries : log[k].kind \in {"updated", "would-update"}})

\* A dry run with a filter that some sources satisfy and others do not:
\* three targets matched, fewer counted as modified.
C18_Witness ==
  /\ prog = "copy" /\ pc = "done" /\ args.dryRun
  /\ args.frontmatterFields.given
  /\ matchedFiles = 3
  /\ modifiedFiles = 2
  /\ \E k \in Entries : log[k].kind = "no-change"

\* ---- directories that cannot be listed
\* What a directory run reports when listings fail and no statSync does: a
\* directory that cannot be listed is reported once, in the place of its
\* subtree, and the enumeration goes on with the next entry of its parent.
RECURSIVE ReportsFrom(_, _)
ReportsFrom(dir, i) ==
  IF dir \in env.listFail THEN <<dir>>
  ELSE IF i > Len(Listing(dir)) THEN << >>
  ELSE LET item == Listing(dir)[i]
           p == PathJoin(dir, item)
       IN (IF Kind(p) = "dir" /\ args.recursive THEN ReportsFrom(p, 1)
           ELSE IF Kind(p) = "file" /\ HasExtension(item, args.extension) THEN <<p>>
           ELSE << >>)
          \o ReportsFrom(dir, i + 1)

DirectoryRun ==
  prog \in {"array", "editor"} /\ args.file = NoPath /\ args.directory # NoPath

Visited ==
  {log[i].path : i \in {k \in Entries : log[k].kind \notin {"directory-error",
                                                              "pattern-mismatch"}}}

\* The regular files under the root: anywhere below it when recursive is
\* set, directly in it otherwise.
Below(root) ==
  {p \in RegularFiles :
     /\ IsPrefix(root, p)
     /\ IF args.recursive THEN Len(p) > Len(root) ELSE Len(p) = Len(root) + 1}

\* C20: a directory run in which no directory call fails visits exactly the
\* regular files below the root (directly in the root when recursive is
\* off) whose name ends with one of the extensions and, when a pattern is
\* given, whose basename matches it, each of them once.
C20_VisitSet ==
  (DirectoryRun /\ env = NoFaults) =>
    /\ Visited \subseteq
         {p \in Below(args.directory) :
            /\ Basename(p)[2] \in args.extension
            /\ args.pattern.given => Basename(p) \in args.pattern.names}
    /\ pc = "done" =>
         Visited = {p \in Below(args.directory) :
                      /\ Basename(p)[2] \in args.extension
                      /\ args.pattern.given => Basename(p) \in args.pattern.names}
    /\ \A i, j \in Entries : log[i].path = log[j].path => i = j

\* Without recursion and with a pattern: of the two markdown files in the
\* root only the one the pattern accepts was visited, the file in the
\* sub-directory was not reached.
C20_Witness ==
  /\ DirectoryRun /\ env = NoFaults /\ pc = "done"
  /\ ~args.recursive /\ args.pattern.given
  /\ Visited = {PathJoin(ContentRoot, N("a", ".md"))}

\* ---- one file at a time
\* The root of a batch run and the files it enumerates, in order.
BatchRun == DirectoryRun \/ prog = "copy"
RunRoot == IF prog = "copy" THEN args.targetContentDir ELSE args.directory
Enumeration == VisitsFrom(RunRoot, 1)
Reached == {log[i].path : i \in FileEntries}

\* C21: in a batch run the files are handled one at a time in enumeration
\* order: every step handles at most one file, which was not handled before,
\* comes later in the enumeration than every file handled so far and is the
\* only file the step may change; the whole read-transform-write cycle of
\* the file is that one step; a file already handled is never changed again
\* and a file not yet reached is as it was before the run.
C21_OneFileAtATime ==
  [][BatchRun =>
       /\ Len(log') <= Len(log) + 1
       /\ \A p \in DOMAIN disk :
            disk'[p] # disk[p] =>
              /\ Len(log') = Len(log) + 1
              /\ log'[Len(log')].path = p
              /\ log'[Len(log')].kind = "updated"
       /\ \A p \in Reached : disk'[p] = disk[p]
       /\ \A p \in (DOMAIN disk) \ Reached' : disk'[p] = disk0[p]
       /\ \A i, j \in FileEntries' : log'[i].path = log'[j].path => i = j
       /\ \A i, j \in FileEntries' :
            i < j =>
              \E m, n \in 1..Len(Enumeration) :
                /\ m < n
                /\ Enumeration[m] = log'[i].path
                /\ Enumeration[n] = log'[j].path
  ]_vars

\* The run was stopped between two files: the first file of the enumeration
\* is written, the file in the sub-directory has been handled and left alone,
\* the last file has not been reached and is as it was.
C21_Witness ==
  /\ prog = "array" /\ pc = "walk" /\ ~args.dryRun
  /\ Len(log) = 2
  /\ log[1].kind = "updated" /\ disk[log[1].path] # disk0[log[1].path]
  /\ log[2].path = PathJoin(DocsDir, N("b", ".md"))
  /\ PathJoin(ContentRoot, N("z", ".md")) \notin Reached
  /\ disk0[PathJoin(ContentRoot, N("z", ".md"))].fault = "none"
  /\ disk0[PathJoin(ContentRoot, N("z", ".md"))].data = StringTags

\* ---- the type of a field
BecameArray(f) ==
  /\ Has(Final, f) /\ IsArray(Final[f])
  /\ ~(Has(Initial, f) /\ IsArray(Initial[f]))
ConvertedToArray(f) ==
  /\ args.mode = "to-array" /\ f \in Requested
  /\ Has(Initial, f) /\ IsString(Initial[f])

\* C22 as stated: a field that is an array after a request and was not an
\* array before is a requested field on which to-array ran.
C22_OnlyToArrayMakesArrays ==
  UnitDone => \A f \in DOMAIN Final : BecameArray(f) => ConvertedToArray(f)

\* C22: a field that is an array after a request and was not an array before
\* is either a requested string field on which to-array ran, or the new name
\* of a rename whose old field was an array or was such a converted field;
\* to-string, add-field, remove-field, analyze and validate never make a
\* field an array.
C22_TypeInvariant ==
  UnitDone =>
    \A f \in DOMAIN Final :
      BecameArray(f) =>
        \/ ConvertedToArray(f)
        \/ /\ f = args.newFieldName
           /\ \E i \in 1..Len(Changes) :
                Changes[i].type = "rename-field" /\ Changes[i].newField = f
           /\ Has(Initial, args.renameField)
           /\ \/ IsArray(Initial[args.renameField])
              \/ ConvertedToArray(args.renameField)

\* One to-array request converted the requested string field and renamed
\* an array field that was not requested: both names hold an array they did
\* not hold before.
C22_Witness ==
  /\ UnitDone /\ args.mode = "to-array"
  /\ BecameArray("tags") /\ ConvertedToArray("tags")
  /\ args.renameField = "title" /\ Has(Initial, "title") /\ IsArray(Initial["title"])
  /\ BecameArray("slug") /\ "slug" \notin Requested

\* ---- the wizard's commands
\* The command of "rename with updated value":
\* --rename-field OLD NEW --add-field NEW VALUE
RenameWithUpdate ==
  /\ UnitDone
  /\ args.renameField # NoField /\ args.newFieldName # NoField
  /\ args.renameField # args.newFieldName
  /\ args.addField = args.newFieldName
  /\ args.removeField = NoField
  /\ args = WizardRenameUpdate(args.renameField, args.newFieldName, args.addValue)

\* C23: after the command --rename-field OLD NEW --add-field NEW VALUE on a
\* file that contains OLD, the file has NEW holding the entered VALUE and
\* has no OLD.
C23_RenameWithNewValue ==
  (RenameWithUpdate /\ Has(Initial, args.renameField)) =>
    /\ Has(Final, args.newFieldName)
    /\ Final[args.newFieldName] = Str(args.addValue)
    /\ ~Has(Final, args.renameField)

\* The command of "add array field":
\* --add-field NAME "v1,v2" --mode to-array --fields NAME
AddArrayField ==
  /\ UnitDone
  /\ args.addField # NoField
  /\ args.addValue # EmptyString
  /\ args = WizardAddArray(args.addField, args.addValue)

\* C24: after the command --add-field NAME "v1,v2" --mode to-array
\* --fields NAME on a file that lacks NAME, the file has NAME holding the
\* array of the comma-separated values.
C24_AddArrayField ==
  (AddArrayField /\ ~Has(Initial, args.addField)) =>
    /\ Has(Final, args.addField)
    /\ Final[args.addField] = Arr(SplitToArray(args.addValue, args))
    /\ Has(disk[UnitPath].data, args.addField)
    /\ disk[UnitPath].data[args.addField] = Arr(SplitToArray(args.addValue, args))

\* ---- set and remove of the field editor
\* What each text given with --value stands for.
ValueOfText(s) ==
  CASE s = True -> Bool(TRUE)
    [] s = False -> Bool(FALSE)
    [] s = <<55>> -> Num(7)
    [] s = <<91, 93>> -> Arr(<< >>)
    [] OTHER -> Str(s)

\* The metadata and the body of the file at p agree with those before the
\* run on everything but the field f.
RestUnchanged(p, f) ==
  /\ DOMAIN disk[p].data \ {f} = DOMAIN disk0[p].data \ {f}
  /\ \A g \in DOMAIN disk[p].data \ {f} : disk[p].data[g] = disk0[p].data[g]
  /\ disk[p].body = disk0[p].body

\* The files the editor has handled without a failure.
Edited ==
  {i \in FileEntries :
     log[i].kind # "pattern-mismatch" /\ disk0[log[i].path].fault = "none"}

\* C25: without --dry-run, after set the field holds the value the text
\* stands for (true/false a boolean, numeric text a number, valid JSON that
\* starts with [ or { the parsed value, anything else the text itself) and
\* the other fields and the body are as before; after remove of a field
\* that is present the field is absent and the rest is as before; remove of
\* a field that is absent does not write the file.
C25_SetAndRemove ==
  (prog = "editor" /\ ~args.dryRun) =>
    \A i \in Edited :
      LET p == log[i].path IN
      /\ args.command = "set" =>
           /\ log[i].kind = "updated"
           /\ Has(disk[p].data, args.field)
           /\ disk[p].data[args.field] = ValueOfText(args.value)
           /\ RestUnchanged(p, args.field)
      /\ (args.command = "remove" /\ Has(disk0[p].data, args.field)) =>
           /\ log[i].kind = "updated"
           /\ ~Has(disk[p].data, args.field)
           /\ RestUnchanged(p, args.field)
      /\ (args.command = "remove" /\ ~Has(disk0[p].data, args.field)) =>
           /\ log[i].kind = "no-change" /\ ~log[i].modified
           /\ disk[p] = disk0[p]

\* A directory run of set with the text "7" has given one file the field and
\* replaced it in another, each keeping its tags.
C25_Witness ==
  /\ prog = "editor" /\ pc = "done" /\ ~args.dryRun
  /\ args.command = "set" /\ args.value = <<55>> /\ args.file = NoPath
  /\ \E i, j \in Edited :
       /\ disk0[log[i].path].data = StringTags
       /\ disk[log[i].path].data = Data2("tags", Str(sBcommaA), "title", Num(7))
       /\ disk0[log[j].path].data = ArrayTags
       /\ disk[log[j].path].data = Data2("tags", Arr(<<sB, sA>>), "title", Num(7))

\* A run of remove on one file that has the field removed it, and a run on
\* one that lacks it left the file alone.
C25_RemoveWitness ==
  /\ prog = "editor" /\ pc = "done" /\ ~args.dryRun
  /\ args.command = "remove" /\ args.directory # NoPath
  /\ \E i, j \in Edited :
       /\ disk0[log[i].path].data = ArrayTags
       /\ disk[log[i].path].data = Data1("tags", Arr(<<sB, sA>>))
       /\ disk0[log[j].path].data = StringTags
       /\ log[j].kind = "no-change"

\* ---- what a copy run writes
\* The source files the run collected, and whether one of them matches the
\* target file p by basename or by relative path.
CollectedPaths == {sourceFiles[j].path : j \in 1..Len(sourceFiles)}
HasSource(p) ==
  \E j \in 1..Len(sourceFiles) :
    sourceFiles[j].name = Basename(p) \/ sourceFiles[j].relativePath = Relative(p)
LastReport == log'[Len(log')]
Reports == Len(log') = Len(log) + 1

\* What every step of a copy run keeps to: a file is written only in the
\* step that reports it, it is a file of the target tree that has a matching
\* source file, a target file without one is reported as unmatched, left as
\* it was and does not end the run, and the collected source files never
\* change once the walk of the target tree has begun.
CopyFrame ==
  /\ \A p \in DOMAIN disk :
       disk'[p] # disk[p] => (Reports /\ LastReport.path = p /\ LastReport.kind = "updated")
  /\ (Reports /\ LastReport.kind = "updated") =>
       /\ HasSource(LastReport.path)
       /\ IsPrefix(args.targetContentDir, LastReport.path)
  /\ (Reports /\ ~HasSource(LastReport.path)) =>
       /\ LastReport.kind = "no-match"
       /\ disk' = disk
       /\ pc' = "walk" /\ stack' = Advanced
       /\ matchedFiles' = matchedFiles /\ modifiedFiles' = modifiedFiles
  /\ pc = "walk" => sourceFiles' = sourceFiles

\* C26 as stated: besides the above, no source file the run collected is
\* ever written, whatever the two directories are.
C26_WritesOnlyMatchedTargets ==
  [][prog = "copy" =>
       /\ CopyFrame
       /\ (Reports /\ LastReport.kind = "updated") => LastReport.path \notin CollectedPaths
  ]_vars

\* C26: a copy run writes only target files that have a matching source
\* file; a target file without one is left as it was and is no error; the
\* collected source files are not modified after they are collected; and
\* when neither of the two directories is the other or lies inside it, no
\* source file the run collected is ever written.
C26_CopyFrame ==
  [][prog = "copy" =>
       /\ CopyFrame
       /\ (/\ ~IsPrefix(args.sourceFrontmatterDir, args.targetContentDir)
           /\ ~IsPrefix(args.targetContentDir, args.sourceFrontmatterDir)) =>
            /\ \A p \in CollectedPaths : disk'[p] = disk[p]
            /\ (Reports /\ LastReport.kind = "updated") =>
                 LastReport.path \notin CollectedPaths
  ]_vars

\* A copy run has ended: it wrote a matched target file, reported the
\* target file that has no source file and left it alone, and every source
\* file is as it was.
C26_Witness ==
  /\ prog = "copy" /\ pc = "done" /\ args.targetContentDir = TargetRoot
  /\ \E i, j \in Entries :
       /\ log[i].kind = "updated" /\ disk[log[i].path] # disk0[log[i].path]
       /\ i < j
       /\ log[j].kind = "no-match" /\ log[j].path = PathJoin(TargetRoot, N("z", ".md"))
       /\ disk[log[j].path] = disk0[log[j].path]
  /\ \A p \in SourceFiles : disk[p] = disk0[p]

\* ---- the change log
\* The field f is not the same in the metadata after the transform as in
\* the parsed metadata; some change record of the file names f.
Differs(f) ==
  \/ Has(Initial, f) # Has(Final, f)
  \/ Has(Initial, f) /\ Has(Final, f) /\ Initial[f] # Final[f]
Recorded(f) ==
  \E i \in 1..Len(Changes) : Changes[i].field = f \/ Changes[i].newField = f

\* C27: the metadata that is serialized, or would be in a dry run, differs
\* from the parsed metadata only in fields that a change record of the file
\* names, and with no change record it equals the parsed metadata; so
\* to-array with sortArrays never reorders an existing array without a
\* change record for it.
C27_ChangeLogComplete ==
  UnitDone =>
    /\ \A f \in (DOMAIN Initial) \cup (DOMAIN Final) : Differs(f) => Recorded(f)
    /\ Changes = << >> => Final = Initial

\* ---- field operations on their own
\* A command line with a directory and one of --add-field, --remove-field
\* and --rename-field, without --mode and without --fields.
FieldOperationOnly ==
  /\ UnitDone
  /\ \/ args.addField # NoField /\ args = WizardAdd(args.addField, args.addValue)
     \/ args.removeField # NoField /\ args = WizardRemove(args.removeField)
     \/ /\ args.renameField # NoField /\ args.newFieldName # NoField
        /\ args = WizardRename(args.renameField, args.newFieldName)
NamedFields ==
  {args.addField, args.removeField, args.renameField, args.newFieldName} \ {NoField}

\* C28: a run with a directory and a single field operation, without --mode
\* and --fields, changes no field other than those the operation names.
C28_OnlyNamedFieldsChange ==
  FieldOperationOnly =>
    \A f \in ((DOMAIN Initial) \cup (DOMAIN Final)) \ NamedFields : ~Differs(f)

\* ---- a field renamed to its own name
\* C29: after rename-field with the new name equal to the old name, a field
\* that was present is still present with the value it had.
C29_RenameToItself ==
  (UnitDone /\ args.mode \in {"to-array", "to-string"}
     /\ args.renameField # NoField /\ args.newFieldName = args.renameField
     /\ args.addField = NoField /\ args.removeField = NoField
     /\ args.renameField \notin Requested
     /\ Has(Initial, args.renameField)) =>
    /\ Has(Final, args.renameField)
    /\ Final[args.renameField] = Initial[args.renameField]

\* ---- entries that cannot be examined
\* The path p is an entry whose statSync fails, or lies below one.
Unexaminable(p) == \E e \in env.statFail : IsPrefix(e, p)

\* C30: in a directory run in which the statSync of an entry fails, only
\* that entry is affected: every other file of the enumeration, those that
\* come after the entry in the same directory included, has been handled
\* when the run ends.
C30_StatFailureIsLocal ==
  (DirectoryRun /\ pc = "done" /\ env.listFail = {} /\ env.statFail # {}) =>
    \A k \in 1..Len(Enumeration) :
      ~Unexaminable(Enumeration[k]) => Enumeration[k] \in Reached

====
